---- MODULE Spec2Model ----
(***************************************************************************)
(* Blue Bikes route optimisation: the warm-start run scripts               *)
(* (src/bluebikes/tsp, src/bluebikes/local-search, src/scripts), the       *)
(* analysis entry points (src/parse_stations.py,                           *)
(* src/scripts/tsp/parse_stations.py) and the network matrix builder       *)
(* (src/make_distance_matrix.py).                                          *)
(*                                                                         *)
(* Representation.  Station indices are 0-based as in the code; sequences  *)
(* are 1-based, so index i is element i+1.  Kilometre values (floats in    *)
(* the code) are fixed-point integers in millimetres; the matrix file      *)
(* holds metres.  A station's name and coordinates are a point number `pt` *)
(* into the coordinate table.  A station id is the text of the id column,  *)
(* a sequence of decimal digits.                                           *)
(***************************************************************************)
EXTENDS Integers, Sequences, FiniteSets, TLC

\* Largest station registry explored.
MaxStations == 4

\* Largest station registry for which a matrix build is explored.
MaxBuildStations == 2

--------------------------------------------------------------------------
(* Generic helpers *)

Range(s) == {s[k] : k \in 1..Len(s)}

Min(a, b) == IF a < b THEN a ELSE b

RECURSIVE PermSeqs(_)
PermSeqs(S) ==
    IF S = {} THEN {<<>>}
    ELSE UNION {{<<e>> \o p : p \in PermSeqs(S \ {e})} : e \in S}

\* t lists every index 0..n-1 exactly once.
IsPermutation(t, n) ==
    /\ Len(t) = n
    /\ \A i \in 0..(n - 1) : Cardinality({k \in 1..Len(t) : t[k] = i}) = 1

\* Python's seq[:k] for k >= 0.
Prefix(s, k) == SubSeq(s, 1, Min(k, Len(s)))

--------------------------------------------------------------------------
(* Optional values: Python's None *)

NoSeed == [some |-> FALSE, val |-> <<>>]
SomeSeed(t) == [some |-> TRUE, val |-> t]

NoLimit == [some |-> FALSE, val |-> 0]
Limit(v) == [some |-> TRUE, val |-> v]

\* Python truthiness of max_stations: None and 0 are false.
Truthy(limit) == limit.some /\ limit.val # 0

--------------------------------------------------------------------------
(* Text of an integer id, as csv holds it *)

\* str(n) for 0 <= n < 100.
DigitsOf(n) == IF n < 10 THEN <<n>> ELSE <<n \div 10, n % 10>>

\* int(text) of a digit string.
RECURSIVE IntOf(_)
IntOf(text) ==
    IF text = <<>> THEN 0
    ELSE 10 * IntOf(SubSeq(text, 1, Len(text) - 1)) + text[Len(text)]

--------------------------------------------------------------------------
(* Geometry: haversine_distance on the coordinate table.                   *)
(* Points 1..4 are the square A(42.00,-71.00) B(42.01,-71.00)              *)
(* C(42.01,-71.01) D(42.00,-71.01); 5 and 6 are (42.02,-71.00) and         *)
(* (42.02,-71.01).  Values are 2*6371*asin(sqrt(a)) in millimetres.        *)

HaversineTable ==
    << << 0,       1111949, 1385338, 826339,  2223899, 2372414 >>,
       << 1111949, 0,       826209,  1385338, 1111949, 1385260 >>,
       << 1385338, 826209,  0,       1111949, 1385260, 1111949 >>,
       << 826339,  1385338, 1111949, 0,       2372414, 2223899 >>,
       << 2223899, 1111949, 1385260, 2372414, 0,       826080  >>,
       << 2372414, 1385260, 1111949, 2223899, 826080,  0       >> >>

haversine_distance(p, q) == HaversineTable[p][q]

\* round(x, 3) of a kilometre value: to the nearest metre.
Round3(v) == ((v + 500) \div 1000) * 1000

--------------------------------------------------------------------------
(* The routing service's road network: route["distance"] in metres for a   *)
(* pair of points.  One-way streets make it asymmetric.                    *)

OsrmTable ==
    << << 0,    1000, 2000, 5000, 3000, 4000 >>,
       << 1000, 0,    1000, 5000, 3000, 4000 >>,
       << 5000, 5000, 0,    1000, 3000, 4000 >>,
       << 1000, 1000, 5000, 0,    3000, 4000 >>,
       << 3000, 3000, 3000, 3000, 0,    2000 >>,
       << 4000, 4000, 4000, 4000, 2000, 0    >> >>

OsrmDistance(p, q) == OsrmTable[p][q]

--------------------------------------------------------------------------
(* The station registry: load_stations().  stations.csv is an input; its   *)
(* id column is text.  Two id assignments are explored: the id is the row  *)
(* index ("index", what parse_stations writes) or the row index plus one   *)
(* ("shifted").                                                            *)

IdSchemes == {"index", "shifted"}

IdText(scheme, i) == IF scheme = "index" THEN DigitsOf(i) ELSE DigitsOf(i + 1)

load_stations(k, scheme) ==
    [i \in 1..k |-> [id |-> IdText(scheme, i - 1), pt |-> i]]

\* stations[:max_stations] if max_stations else stations
SelectStations(st, limit) ==
    IF Truthy(limit) THEN Prefix(st, limit.val) ELSE st

--------------------------------------------------------------------------
(* Distance matrices.  A matrix is a sequence of rows; m[i+1][j+1] is the  *)
(* code's matrix[i][j].                                                    *)

Dim(m) == Len(m)

At(m, i, j) == m[i + 1][j + 1]

\* np.zeros((n, n))
Zeros(n) == [i \in 1..n |-> [j \in 1..n |-> 0]]

\* A variant that computes the cells below the diagonal and copies above it.
ComputesBelowDiagonal(i, j) == i > j

\* `if i < j`: the cell whose distance is computed.
ComputesCell(i, j) == i < j

\* The loops of get_haversine_distance_matrix / create_distance_matrix, one
\* cell c = i * n + j per pass in the order of `for i ... for j ...`: a
\* computed cell gets haversine_distance, any other cell off the diagonal
\* copies what distance_matrix[j][i] holds at that moment, and the diagonal
\* keeps the zero of np.zeros.
RECURSIVE HaversineFill(_, _, _)
HaversineFill(st, c, m) ==
    LET n == Len(st)
        i == c \div n
        j == c % n
    IN IF c >= n * n THEN m
       ELSE HaversineFill(st, c + 1,
              IF ComputesCell(i, j)
              THEN [m EXCEPT ![i + 1][j + 1] = haversine_distance(st[i + 1].pt, st[j + 1].pt)]
              ELSE IF i # j
              THEN [m EXCEPT ![i + 1][j + 1] = m[j + 1][i + 1]]
              ELSE m)

get_haversine_distance_matrix(st) ==
    IF st = <<>> THEN <<>> ELSE HaversineFill(st, 0, Zeros(Len(st)))

\* query_route's `return None`, written by csv.writer as the empty cell.
Unavailable == -1

\* The file build_and_write_matrix leaves for station list st when the
\* service answers pair (i, j) with answer[i][j] (metres or Unavailable).
MatrixFileOf(st, answer) ==
    [header |-> [i \in 1..Len(st) |-> st[i].id],
     rows   |-> [i \in 1..Len(st) |->
                   [id   |-> st[i].id,
                    vals |-> [j \in 1..Len(st) |->
                                IF i = j THEN 0 ELSE answer[i][j]]]]]

\* float(val) raises ValueError on an empty cell.
LoadRaises(file) ==
    \E i \in 1..Len(file.rows) :
        \E j \in 1..Len(file.rows[i].vals) : file.rows[i].vals[j] = Unavailable

\* load_distance_matrix: next(reader) drops the header unread, row[1:] drops
\* the row id unread, np.array(distances) / 1000.0 turns metres into km.
load_distance_matrix(file) ==
    [i \in 1..Len(file.rows) |->
        [j \in 1..Len(file.rows[i].vals) |-> file.rows[i].vals[j] * 1000]]

\* distance_matrix[:k, :k] on a 2-D array.
SliceMatrix(m, k) ==
    [i \in 1..Min(k, Len(m)) |-> Prefix(m[i], k)]

\* np.array([]) is 1-D: indexing it with two slices raises IndexError.
SliceRaises(m) == Len(m) = 0

\* distance_matrix[:max_stations, :max_stations] if max_stations else distance_matrix
SelectMatrix(m, limit) ==
    IF Truthy(limit) THEN SliceMatrix(m, limit.val) ELSE m

--------------------------------------------------------------------------
(* The heuristic solver (python_tsp), an external library the scripts      *)
(* call.  It is modelled by what the calls rely on: the tour it starts     *)
(* from, the moves it can accept, and where it can stop.                   *)

InRange(x, n) == \A k \in 1..Len(x) : x[k] \in 0..(n - 1)

\* Closed-tour cost: consecutive legs plus the leg from the last stop back
\* to the first.
RECURSIVE LegSum(_, _, _)
LegSum(m, x, k) ==
    IF k > Len(x) THEN 0
    ELSE At(m, x[k], x[IF k = Len(x) THEN 1 ELSE k + 1]) + LegSum(m, x, k + 1)

compute_permutation_distance(m, x) == LegSum(m, x, 1)

\* x with positions i..j reversed.
Reversed(x, i, j) ==
    [k \in 1..Len(x) |-> IF k >= i /\ k <= j THEN x[i + j - k] ELSE x[k]]

\* The 2-opt neighbourhood: every reversal of a segment of at least two
\* stops that leaves the first stop in place.
two_opt_gen(x) ==
    {Reversed(x, ij[1], ij[2]) :
        ij \in {p \in (2..(Len(x) - 1)) \X (3..Len(x)) : p[1] < p[2]}}

\* The starting tour: the seed when one is given, else node 0 followed by
\* a random order of the others.
setup_initial_solution(m, x0) ==
    IF x0.some /\ x0.val # <<>> THEN {x0.val}
    ELSE IF Dim(m) = 0 THEN {<<>>}
    ELSE {<<0>> \o p : p \in PermSeqs(1..(Dim(m) - 1))}

Raised == [raised |-> TRUE, tour |-> <<>>, cost |-> 0]
Returned(m, t) == [raised |-> FALSE, tour |-> t, cost |-> compute_permutation_distance(m, t)]

\* Tours annealing can be at: from x, any chain of accepted moves.  A move
\* to a cheaper tour is always accepted, a move to a dearer one with
\* probability exp(-delta/temperature), a move of equal cost never.
RECURSIVE AnnealReach(_, _, _)
AnnealReach(m, seen, frontier) ==
    IF frontier = {} THEN seen
    ELSE LET next == UNION {{y \in two_opt_gen(x) :
                                compute_permutation_distance(m, y)
                                    # compute_permutation_distance(m, x)} :
                            x \in frontier} \ seen
         IN AnnealReach(m, seen \cup next, next)

\* A variant that may stop wherever it is (on a time limit, say).
AnnealStopsAnywhere(m, x) == TRUE

\* Annealing stops after epochs in which no proposal was accepted, so
\* where no neighbour is cheaper; it returns the tour it is at, not the
\* best it has seen.
AnnealStops(m, x) ==
    \A y \in two_opt_gen(x) :
        compute_permutation_distance(m, y) >= compute_permutation_distance(m, x)

\* A start of fewer than three stops has no 2-opt move, and an empty matrix
\* has no start node: the library either raises there or hands back the
\* start unchanged.
Degenerate(x) == Len(x) <= 2

\* Every start has the matrix's (or the seed's) length, so the tours
\* annealing can be at are those reachable from any of the starts.
solve_tsp_simulated_annealing(m, x0) ==
    LET starts == setup_initial_solution(m, x0)
    IN IF x0.some /\ ~InRange(x0.val, Dim(m)) THEN {Raised}
       ELSE IF \E x \in starts : Degenerate(x)
       THEN {Raised} \cup {Returned(m, x) : x \in starts}
       ELSE {Returned(m, t) :
               t \in {u \in AnnealReach(m, starts, starts) : AnnealStops(m, u)}}

\* Rearrangements of x that keep its first stop.
KeepFirst(x) ==
    IF x = <<>> THEN {<<>>}
    ELSE {<<x[1]>> \o [k \in 1..(Len(x) - 1) |-> x[p[k] + 1]] :
            p \in PermSeqs(1..(Len(x) - 1))}

\* Local search only ever moves to a strictly cheaper tour: it returns the
\* start or something cheaper.  schemeKnown is whether the perturbation
\* scheme name is one the library lists (ps1..ps6, two_opt); an unlisted
\* name ("ps2_gen") may be refused.
solve_tsp_local_search(m, x0, schemeKnown) ==
    IF x0.some /\ ~InRange(x0.val, Dim(m)) THEN {Raised}
    ELSE (IF schemeKnown THEN {} ELSE {Raised})
         \cup UNION {(IF x = <<>> THEN {Raised} ELSE {})
                     \cup {Returned(m, t) :
                            t \in {u \in KeepFirst(x) :
                                     \/ u = x
                                     \/ compute_permutation_distance(m, u)
                                          < compute_permutation_distance(m, x)}} :
                     x \in setup_initial_solution(m, x0)}

--------------------------------------------------------------------------
(* Persisted routes *)

HAVERSINE_ROUTE_FILE == "outputs/routes/haversine_route.csv"
SHORTEST_ROUTE_FILE == "outputs/routes/shortest_distance_route.csv"
PS2_ROUTE_FILE == "outputs/routes/shortest_distance_route_ps2.csv"
\* ROUTE_FILE.replace(".", "_ps6.")
PS2_OUTPUT_FILE == "outputs/routes/shortest_distance_route_ps2_ps6.csv"

\* ROUTE_FILE.replace(".", "_local_search."), defined by
\* src/scripts/local-search/local_search.py and not written
LOCAL_SEARCH_OUTPUT_FILE == "outputs/routes/shortest_distance_route_local_search.csv"

OSRM_OUTPUT_FILE == "outputs/routes/osrm_route.csv"

RouteFiles ==
    {HAVERSINE_ROUTE_FILE, SHORTEST_ROUTE_FILE, PS2_ROUTE_FILE, PS2_OUTPUT_FILE,
     LOCAL_SEARCH_OUTPUT_FILE, OSRM_OUTPUT_FILE}

\* The file a script loads its previous route from: load_route(ROUTE_FILE).
ReadFileOf(script) ==
    IF script = "haversine" THEN HAVERSINE_ROUTE_FILE
    ELSE IF script = "bluebikes_local_search" THEN PS2_ROUTE_FILE
    ELSE SHORTEST_ROUTE_FILE

\* A variant in which scripts/local-search persists to the OUTPUT_FILE it
\* defines instead of ROUTE_FILE.
WriteFileOfOutputFile(script) ==
    IF script = "haversine" THEN HAVERSINE_ROUTE_FILE
    ELSE IF script = "bluebikes_local_search" THEN PS2_OUTPUT_FILE
    ELSE IF script = "scripts_local_search" THEN LOCAL_SEARCH_OUTPUT_FILE
    ELSE SHORTEST_ROUTE_FILE

\* The file a script hands to write_route_to_csv.
WriteFileOf(script) ==
    IF script = "haversine" THEN HAVERSINE_ROUTE_FILE
    ELSE IF script = "bluebikes_local_search" THEN PS2_OUTPUT_FILE
    ELSE SHORTEST_ROUTE_FILE

AbsentFile == [exists |-> FALSE, stops |-> <<>>]

\* A variant that adds the leg out of stop k before the row of stop k is
\* appended.
RECURSIVE LegsThrough(_, _, _)
LegsThrough(st, route, k) ==
    IF k < 1 THEN 0
    ELSE LegsThrough(st, route, k - 1)
         + (IF k < Len(route)
            THEN haversine_distance(st[route[k] + 1].pt, st[route[k + 1] + 1].pt)
            ELSE 0)

\* Sum of the unrounded legs before stop k: cumulative_distance at stop k.
RECURSIVE LegsBefore(_, _, _)
LegsBefore(st, route, k) ==
    IF k <= 1 THEN 0
    ELSE LegsBefore(st, route, k - 1)
         + haversine_distance(st[route[k - 1] + 1].pt, st[route[k] + 1].pt)

\* format_python_tsp_route: the leg to the next stop is the haversine
\* distance, and 0 for the last stop; both columns are rounded.
format_python_tsp_route(st, route) ==
    [k \in 1..Len(route) |->
        [stop_number |-> k,
         station_id  |-> st[route[k] + 1].id,
         pt          |-> st[route[k] + 1].pt,
         distance_to_next_km |->
             Round3(IF k < Len(route)
                    THEN haversine_distance(st[route[k] + 1].pt, st[route[k + 1] + 1].pt)
                    ELSE 0),
         cumulative_distance_km |-> Round3(LegsBefore(st, route, k))]]

\* stations[station_idx] raises IndexError for an index past the list.
FormatRaises(st, route) == ~InRange(route, Len(st))

\* write_route_to_csv: the header and the rows are written and the file
\* closed; then the summary line reads route[-1].
write_route_to_csv(route) == [exists |-> TRUE, stops |-> route]

WriteRaises(route) == route = <<>>

\* load_route: one dict per row, station_id through int().
load_route(file) ==
    [k \in 1..Len(file.stops) |->
        [stop_number |-> file.stops[k].stop_number,
         station_id  |-> IntOf(file.stops[k].station_id),
         pt          |-> file.stops[k].pt,
         distance_to_next_km |-> file.stops[k].distance_to_next_km,
         cumulative_distance_km |-> file.stops[k].cumulative_distance_km]]

\* A variant of the seed rule without the stop-count comparison.
WarmStartSeedAnyLength(file, sel) ==
    IF file.exists /\ load_route(file) # <<>>
    THEN SomeSeed([k \in 1..Len(file.stops) |-> load_route(file)[k].station_id])
    ELSE NoSeed

\* last_route = load_route(ROUTE_FILE) if os.path.exists(ROUTE_FILE) else None
\* x0 = [waypoint["station_id"] for waypoint in last_route]
\*          if last_route and len(last_route) == len(selected_stations) else None
WarmStartSeed(file, sel) ==
    IF file.exists /\ load_route(file) # <<>> /\ Len(load_route(file)) = Len(sel)
    THEN SomeSeed([k \in 1..Len(file.stops) |-> load_route(file)[k].station_id])
    ELSE NoSeed

--------------------------------------------------------------------------
(* State *)

VARIABLES
    pipeline,    \* which group of scripts sharing a route file is being run
    stations,    \* data/stations/stations.csv as load_stations returns it
    matrixFile,  \* the distance matrix csv: [header, rows]
    routeFile,   \* the persisted route csv files, by path
    last,        \* what the most recent run did (its locals, as observed)
    bpc,         \* matrix build: where build_and_write_matrix / query_route is
    bi,          \* matrix build: row index i
    bj,          \* matrix build: column index j
    attempt,     \* query_route: attempts made for the current pair
    row,         \* matrix build: the row list being filled
    events,      \* query_route: what happened for the current pair, in order
    requests,    \* matrix build: requests issued so far by this build
    outstanding, \* matrix build: requests.get calls that have not returned
    delays,      \* matrix build: inter-request delays slept so far by this build
    queries,     \* matrix build: the pairs query_route was called for, in order
    route_data,  \* directions: the rows load_route_from_csv returned
    dpc,         \* directions: where get_all_route_segments / get_route_geometry is
    di,          \* directions: segment index i
    dattempt,    \* get_route_geometry: attempts made for the current segment
    dlog,        \* get_route_geometry: what happened in the current call, in order
    segments     \* directions: the segments list

runVars == <<routeFile, last>>
buildVars == <<bpc, bi, bj, attempt, row, events, requests, outstanding, delays, queries>>
dirVars == <<route_data, dpc, di, dattempt, dlog, segments>>
vars == <<pipeline, stations, matrixFile, routeFile, last, bpc, bi, bj, attempt, row, events,
          requests, outstanding, delays, queries,
          route_data, dpc, di, dattempt, dlog, segments>>

\* max_stations as a caller can pass it.
Limits == {NoLimit} \cup {Limit(v) : v \in 0..MaxStations}

NoRun ==
    [script |-> "none", n |-> 0, stage |-> "none",
     readRoute |-> FALSE, readExists |-> FALSE, readStops |-> 0,
     x0 |-> NoSeed, dim |-> 0, returned |-> FALSE, fallback |-> FALSE,
     tour |-> <<>>, cost |-> 0,
     solved |-> FALSE, matrix |-> <<>>, route |-> <<>>, io |-> <<>>]

\* A run that raised before it looked at the route file.
EarlyRaise(script, sel, stage) ==
    [NoRun EXCEPT !.script = script, !.n = Len(sel), !.stage = stage]

\* One entry of a run's log of what it did with the route files.
Io(op, file) == [op |-> op, file |-> file]

\* load_route(ROUTE_FILE) if os.path.exists(ROUTE_FILE) else None
SeedRead(script, rf) == IF rf.exists THEN <<Io("read", ReadFileOf(script))>> ELSE <<>>

\* create_map_w_directions(file): main(route_file) of get_directions starts
\* with route = load_route(route_file).
create_map_w_directions(file) == <<Io("read", file)>>

\* The tail every warm-start script shares once the solver has answered
\* res: format_python_tsp_route, then write_route_to_csv, then
\* create_map_w_directions on the file just written.
FormatAndPersist(script, sel, x0, m, res) ==
    LET rf   == routeFile[ReadFileOf(script)]
        seen == [NoRun EXCEPT !.script = script, !.n = Len(sel),
                              !.readRoute = TRUE, !.readExists = rf.exists,
                              !.readStops = Len(rf.stops), !.x0 = x0, !.dim = Dim(m),
                              !.solved = TRUE, !.matrix = m,
                              !.io = SeedRead(script, rf) \o <<Io("solve", "")>>]
    IN IF res.raised
       THEN /\ last' = [seen EXCEPT !.stage = "solver_raised"]
            /\ UNCHANGED routeFile
       ELSE LET got == [seen EXCEPT !.returned = TRUE, !.tour = res.tour, !.cost = res.cost]
            IN IF FormatRaises(sel, res.tour)
               THEN /\ last' = [got EXCEPT !.stage = "format_raised"]
                    /\ UNCHANGED routeFile
               ELSE LET route == format_python_tsp_route(sel, res.tour)
                    IN /\ routeFile' = [routeFile EXCEPT ![WriteFileOf(script)] =
                                                       write_route_to_csv(route)]
                       /\ last' = [got EXCEPT !.route = route,
                                               !.stage = IF WriteRaises(route)
                                                         THEN "write_raised" ELSE "done",
                                               !.io = @ \o <<Io("write", WriteFileOf(script))>>
                                                        \o (IF WriteRaises(route) THEN <<>>
                                                            ELSE create_map_w_directions(
                                                                    WriteFileOf(script)))]

--------------------------------------------------------------------------
(* The warm-start run scripts *)

\* src/bluebikes/tsp/get_haversine_route.py main(max_stations)
RunHaversine(limit) ==
    LET sel == SelectStations(stations, limit)
        m   == get_haversine_distance_matrix(sel)
        rf  == routeFile[ReadFileOf("haversine")]
        x0  == WarmStartSeed(rf, sel)
    IN /\ pipeline = "haversine"
       /\ bpc = "idle"
       /\ \E res \in solve_tsp_simulated_annealing(m, x0) :
             FormatAndPersist("haversine", sel, x0, m, res)
       /\ UNCHANGED <<dirVars, pipeline, stations, matrixFile, buildVars>>

\* src/bluebikes/tsp/get_shortest_distance_route.py main(max_stations)
RunShortest(limit) ==
    LET sel  == SelectStations(stations, limit)
        full == load_distance_matrix(matrixFile)
        rf   == routeFile[ReadFileOf("shortest")]
        x0   == WarmStartSeed(rf, sel)
    IN /\ pipeline = "shortest"
       /\ bpc = "idle"
       /\ IF LoadRaises(matrixFile)
          THEN last' = EarlyRaise("shortest", sel, "load_raised") /\ UNCHANGED routeFile
          ELSE IF Truthy(limit) /\ SliceRaises(full)
          THEN last' = EarlyRaise("shortest", sel, "slice_raised") /\ UNCHANGED routeFile
          ELSE \E res \in solve_tsp_simulated_annealing(SelectMatrix(full, limit), x0) :
                  FormatAndPersist("shortest", sel, x0, SelectMatrix(full, limit), res)
       /\ UNCHANGED <<dirVars, pipeline, stations, matrixFile, buildVars>>

\* src/bluebikes/local-search/local_search.py: module-level, max_stations =
\* None; the solver is given distance_matrix, the route goes to OUTPUT_FILE.
RunBluebikesLocalSearch ==
    LET sel  == SelectStations(stations, NoLimit)
        full == load_distance_matrix(matrixFile)
        rf   == routeFile[ReadFileOf("bluebikes_local_search")]
        x0   == WarmStartSeed(rf, sel)
    IN /\ pipeline = "ps2"
       /\ bpc = "idle"
       /\ IF LoadRaises(matrixFile)
          THEN last' = EarlyRaise("bluebikes_local_search", sel, "load_raised")
               /\ UNCHANGED routeFile
          ELSE \E res \in solve_tsp_local_search(full, x0, TRUE) :
                  FormatAndPersist("bluebikes_local_search", sel, x0, full, res)
       /\ UNCHANGED <<dirVars, pipeline, stations, matrixFile, buildVars>>

\* src/scripts/local-search/local_search.py: module-level, max_stations =
\* None, perturbation_scheme="ps2_gen"; the route goes back to ROUTE_FILE.
\* It imports its helpers from scripts.tsp.helpers, which src/ does not
\* hold; they are taken to be the functions of the same names in
\* src/bluebikes/tsp/helpers.py.
RunScriptsLocalSearch ==
    LET sel  == SelectStations(stations, NoLimit)
        full == load_distance_matrix(matrixFile)
        rf   == routeFile[ReadFileOf("scripts_local_search")]
        x0   == WarmStartSeed(rf, sel)
    IN /\ pipeline = "shortest"
       /\ bpc = "idle"
       /\ IF LoadRaises(matrixFile)
          THEN last' = EarlyRaise("scripts_local_search", sel, "load_raised")
               /\ UNCHANGED routeFile
          ELSE \E res \in solve_tsp_local_search(full, x0, FALSE) :
                  FormatAndPersist("scripts_local_search", sel, x0, full, res)
       /\ UNCHANGED <<dirVars, pipeline, stations, matrixFile, buildVars>>

--------------------------------------------------------------------------
(* The analysis entry points: run_tsp_analysis and                         *)
(* traveling_salesman_approximation                                        *)

\* create_distance_matrix has the loops of get_haversine_distance_matrix
\* over [name, lat, lng] lists.
create_distance_matrix(st) == get_haversine_distance_matrix(st)

RECURSIVE SumSeq(_)
SumSeq(s) == IF s = <<>> THEN 0 ELSE Head(s) + SumSeq(Tail(s))

Identity(n) == [k \in 1..n |-> k - 1]

Answer(t, c, fb) == [raised |-> FALSE, tour |-> t, cost |-> c, fallback |-> fb]
HandlerRaised == [raised |-> TRUE, tour |-> <<>>, cost |-> 0, fallback |-> TRUE]

\* except Exception: return list(range(len(stations))), np.sum(distance_matrix[0])
\* (distance_matrix[0] itself raises on an empty array).
Fallback(sel, m) ==
    IF Dim(m) = 0 THEN HandlerRaised
    ELSE Answer(Identity(Len(sel)), SumSeq(m[1]), TRUE)

\* if max_stations is None or len(stations) < max_stations: all of them
AnalysisSelects(st, limit) == limit.some /\ Len(st) >= limit.val

\* selected_stations of run_tsp_analysis: stations, or stations[:max_stations]
AnalysisSelection(st, limit) ==
    IF AnalysisSelects(st, limit) THEN Prefix(st, limit.val) ELSE st

\* src/parse_stations.py traveling_salesman_approximation(stations)
traveling_salesman_approximation(sel) ==
    IF Len(sel) = 0 THEN {Answer(<<>>, 0, FALSE)}
    ELSE IF Len(sel) = 1 THEN {Answer(<<0>>, 0, FALSE)}
    ELSE LET m == create_distance_matrix(sel)
         IN {IF res.raised THEN Fallback(sel, m)
             ELSE Answer(res.tour, res.cost, FALSE) :
             res \in solve_tsp_simulated_annealing(m, NoSeed)}

\* if distance_matrix.shape[0] > n_stations: the first n_stations rows and
\* columns
GivenMatrix(sel, given) ==
    IF Dim(given) > Len(sel) THEN SliceMatrix(given, Len(sel)) ELSE given

\* src/scripts/tsp/parse_stations.py
\* traveling_salesman_approximation(stations, distance_matrix)
traveling_salesman_approximation_matrix(sel, given) ==
    IF Len(sel) = 0 THEN {Answer(<<>>, 0, FALSE)}
    ELSE IF Len(sel) = 1 THEN {Answer(<<0>>, 0, FALSE)}
    ELSE LET m == GivenMatrix(sel, given)
         IN {IF res.raised THEN Fallback(sel, m)
             ELSE Answer(res.tour, res.cost, FALSE) :
             res \in solve_tsp_simulated_annealing(m, NoSeed)}

\* export_tsp_route of src/scripts/tsp/parse_stations.py reads
\* stations[station_idx] and distance_matrix[station_idx][next_station_idx].
ExportRaises(sel, m, tour) ==
    tour # <<>> /\ (~InRange(tour, Len(sel)) \/ ~InRange(tour, Dim(m)))

\* The stop after stop k of a closed tour.
NextStop(tour, k) == tour[IF k = Len(tour) THEN 1 ELSE k + 1]

\* Sum of the first k legs.
RECURSIVE SumTo(_, _)
SumTo(legs, k) == IF k <= 0 THEN 0 ELSE SumTo(legs, k - 1) + legs[k]

\* The rows both export_tsp_route functions build from the legs of the
\* closed tour: one per stop, the last stop's leg being the one back to the
\* start, then the "(return to start)" row when the route is not empty.
ExportRows(sel, tour, legs) ==
    [k \in 1..(Len(tour) + (IF tour = <<>> THEN 0 ELSE 1)) |->
        IF k <= Len(tour)
        THEN [stop_number |-> k,
              pt          |-> sel[tour[k] + 1].pt,
              returns     |-> FALSE,
              distance_to_next_km    |-> Round3(legs[k]),
              cumulative_distance_km |-> Round3(SumTo(legs, k - 1))]
        ELSE [stop_number |-> k,
              pt          |-> sel[tour[1] + 1].pt,
              returns     |-> TRUE,
              distance_to_next_km    |-> 0,
              cumulative_distance_km |-> Round3(SumTo(legs, Len(tour)))]]

\* export_tsp_route of src/parse_stations.py: haversine legs.
export_tsp_route(sel, tour) ==
    ExportRows(sel, tour,
               [k \in 1..Len(tour) |->
                   haversine_distance(sel[tour[k] + 1].pt, sel[NextStop(tour, k) + 1].pt)])

\* export_tsp_route of src/scripts/tsp/parse_stations.py: legs read from
\* the distance matrix.
export_tsp_route_matrix(sel, m, tour) ==
    ExportRows(sel, tour, [k \in 1..Len(tour) |-> At(m, tour[k], NextStop(tour, k))])

\* What run_tsp_analysis leaves: the solver is called for two stations or
\* more, on matrix given; exported is what export_tsp_route returns.
Analysed(script, sel, m, given, ans, exportRaises, exported) ==
    [NoRun EXCEPT !.script = script, !.n = Len(sel), !.dim = Dim(m),
                  !.stage = IF ans.raised THEN "solver_raised"
                            ELSE IF exportRaises THEN "export_raised" ELSE "done",
                  !.returned = ~ans.raised, !.fallback = ans.fallback,
                  !.tour = ans.tour, !.cost = ans.cost,
                  !.solved = Len(sel) >= 2,
                  !.matrix = IF Len(sel) >= 2 THEN given ELSE <<>>,
                  !.route = IF ans.raised \/ exportRaises THEN <<>> ELSE exported]

\* src/parse_stations.py run_tsp_analysis(stations, max_stations)
RunAnalysis(limit) ==
    LET sel == AnalysisSelection(stations, limit)
    IN /\ pipeline = "analysis"
       /\ bpc = "idle"
       /\ \E ans \in traveling_salesman_approximation(sel) :
             last' = Analysed("analysis", sel, create_distance_matrix(sel),
                              create_distance_matrix(sel), ans, FALSE,
                              IF ans.raised THEN <<>> ELSE export_tsp_route(sel, ans.tour))
       /\ UNCHANGED <<dirVars, pipeline, stations, matrixFile, routeFile, buildVars>>

\* src/scripts/tsp/parse_stations.py run_tsp_analysis(stations, max_stations)
RunMatrixAnalysis(limit) ==
    LET full == load_distance_matrix(matrixFile)
        sel  == AnalysisSelection(stations, limit)
        m    == IF AnalysisSelects(stations, limit) THEN SliceMatrix(full, limit.val)
                ELSE full
    IN /\ pipeline = "matrix_analysis"
       /\ bpc = "idle"
       /\ IF LoadRaises(matrixFile)
          THEN last' = EarlyRaise("matrix_analysis", sel, "load_raised")
          ELSE IF AnalysisSelects(stations, limit) /\ SliceRaises(full)
          THEN last' = EarlyRaise("matrix_analysis", sel, "slice_raised")
          ELSE \E ans \in traveling_salesman_approximation_matrix(sel, m) :
                  last' = Analysed("matrix_analysis", sel, m, GivenMatrix(sel, m), ans,
                                   ExportRaises(sel, m, ans.tour),
                                   IF ans.raised \/ ExportRaises(sel, m, ans.tour) THEN <<>>
                                   ELSE export_tsp_route_matrix(sel, m, ans.tour))
       /\ UNCHANGED <<dirVars, pipeline, stations, matrixFile, routeFile, buildVars>>

--------------------------------------------------------------------------
(* Specification of the run scripts.  A behaviour runs the scripts of one  *)
(* pipeline, those that share a route file, any number of times with any   *)
(* max_stations; scripts of different pipelines share only their inputs.   *)
(* The registry and the matrix file are inputs: the matrix file is one     *)
(* make_distance_matrix.py wrote for the registry as it was at build time  *)
(* (the same, one station shorter or longer, or with other ids).           *)

\* src/scripts/tsp/get_osrm_route.py: the trip service orders the stops
\* itself.  waypoint["distance"] is how far the service moved the
\* coordinate to reach the road network, a function of the coordinate.
SnapTable == << 0, 4400400, 12600700, 3499500, 800499, 15500000 >>

\* r.json() of a trip answer for the selected stations: one waypoint per
\* coordinate, in input order, waypoint_index its position in the trip,
\* a round trip that starts at the first coordinate.
TripResponses(sel) ==
    {[waypoints |-> [k \in 1..Len(sel) |->
                       [waypoint_index |-> order[k],
                        distance       |-> SnapTable[sel[k].pt]]]] :
        order \in {f \in [1..Len(sel) -> 0..(Len(sel) - 1)] :
                     IsPermutation(f, Len(sel)) /\ (Len(sel) > 0 => f[1] = 0)}}

\* format_osrm_route(data, stations): one row per waypoint, sorted by
\* stop_number; then the cumulative column from the rounded legs.
format_osrm_route(data, st) ==
    LET rows == [k \in 1..Len(data.waypoints) |->
                   [stop_number |-> data.waypoints[k].waypoint_index,
                    pt          |-> st[k].pt,
                    distance_to_next_km |-> Round3(data.waypoints[k].distance)]]
        sorted == [p \in 1..Len(rows) |->
                     rows[CHOOSE k \in 1..Len(rows) : rows[k].stop_number = p - 1]]
    IN [p \in 1..Len(sorted) |->
          [stop_number |-> sorted[p].stop_number,
           pt          |-> sorted[p].pt,
           distance_to_next_km    |-> sorted[p].distance_to_next_km,
           cumulative_distance_km |->
               Round3(SumTo([q \in 1..Len(sorted) |-> sorted[q].distance_to_next_km],
                            p - 1))]]

\* main(max_stations): one request; requests.get or raise_for_status may
\* raise; the formatted route goes to OUTPUT_FILE.
RunOsrmTrip(limit) ==
    LET sel == SelectStations(stations, limit)
    IN /\ pipeline = "osrm"
       /\ bpc = "idle"
       /\ \/ /\ last' = EarlyRaise("osrm", sel, "request_raised")
             /\ UNCHANGED routeFile
          \/ \E data \in TripResponses(sel) :
                LET route == format_osrm_route(data, sel)
                IN /\ routeFile' = [routeFile EXCEPT ![OSRM_OUTPUT_FILE] =
                                                   write_route_to_csv(route)]
                   /\ last' = [NoRun EXCEPT !.script = "osrm", !.n = Len(sel),
                                             !.route = route,
                                             !.stage = IF WriteRaises(route)
                                                       THEN "write_raised" ELSE "done"]
       /\ UNCHANGED <<dirVars, pipeline, stations, matrixFile, buildVars>>

Pipelines == {"haversine", "shortest", "ps2", "analysis", "matrix_analysis", "osrm"}

ReadsMatrix(pl) == pl \in {"shortest", "ps2", "matrix_analysis"}

OtherScheme(scheme) == IF scheme = "index" THEN "shifted" ELSE "index"

\* Every pair routed.
Routed(st) ==
    [i \in 1..Len(st) |-> [j \in 1..Len(st) |-> OsrmDistance(st[i].pt, st[j].pt)]]

\* Matrix files a run can find for a registry of k stations: a complete
\* build for it, for a registry one shorter or longer or with the other
\* ids, a build with a pair that got no route, and a build that was
\* stopped before its last row.
MatrixInputs(k, scheme) ==
    LET st == load_stations(k, scheme)
    IN {MatrixFileOf(st, Routed(st))}
       \cup {MatrixFileOf(load_stations(b, scheme), Routed(load_stations(b, scheme))) :
               b \in {k - 1, k + 1} \cap 0..MaxStations}
       \cup {MatrixFileOf(load_stations(k, OtherScheme(scheme)),
                          Routed(load_stations(k, OtherScheme(scheme))))}
       \cup (IF k >= 2 THEN {MatrixFileOf(st, [Routed(st) EXCEPT ![1][2] = Unavailable])}
             ELSE {})
       \cup (IF k >= 2
             THEN {[MatrixFileOf(st, Routed(st)) EXCEPT !.rows = Prefix(@, k - 1)]}
             ELSE {})

\* The route file a pipeline's first run finds: none, or the route in
\* registry order persisted when the registry held one station fewer, as
\* many, or one more.
EarlierRoutes(k, scheme) ==
    {AbsentFile}
    \cup {write_route_to_csv(format_python_tsp_route(load_stations(b, scheme), Identity(b))) :
            b \in {k - 1, k, k + 1} \cap 1..MaxStations}

WarmStartPipelines == {"haversine", "shortest", "ps2"}

PipelineReads(pl) ==
    IF pl = "haversine" THEN HAVERSINE_ROUTE_FILE
    ELSE IF pl = "ps2" THEN PS2_ROUTE_FILE
    ELSE SHORTEST_ROUTE_FILE

IdleDirections ==
    /\ route_data = <<>>
    /\ dpc = "idle"
    /\ di = 0
    /\ dattempt = 0
    /\ dlog = <<>>
    /\ segments = <<>>

IdleBuild ==
    /\ bpc = "idle"
    /\ bi = 0
    /\ bj = 0
    /\ attempt = 0
    /\ row = <<>>
    /\ events = <<>>
    /\ requests = 0
    /\ outstanding = 0
    /\ delays = 0
    /\ queries = <<>>

Init ==
    /\ pipeline \in Pipelines
    /\ \E k \in 0..MaxStations, scheme \in IdSchemes :
          /\ stations = load_stations(k, scheme)
          /\ matrixFile \in IF ReadsMatrix(pipeline) THEN MatrixInputs(k, scheme)
                            ELSE {MatrixFileOf(stations, Routed(stations))}
          /\ \E f \in IF pipeline \in WarmStartPipelines THEN EarlierRoutes(k, scheme)
                       ELSE {AbsentFile} :
                routeFile = [p \in RouteFiles |->
                               IF p = PipelineReads(pipeline) THEN f ELSE AbsentFile]
    /\ last = NoRun
    /\ IdleBuild
    /\ IdleDirections

Next ==
    \/ \E limit \in Limits : RunHaversine(limit)
    \/ \E limit \in Limits : RunShortest(limit)
    \/ RunBluebikesLocalSearch
    \/ RunScriptsLocalSearch
    \/ \E limit \in Limits : RunAnalysis(limit)
    \/ \E limit \in Limits : RunMatrixAnalysis(limit)
    \/ \E limit \in Limits : RunOsrmTrip(limit)

Spec == Init /\ [][Next]_vars

--------------------------------------------------------------------------
(* The network matrix builder: src/make_distance_matrix.py.  One routing   *)
(* request, one sleep, one row write is one step.                          *)

\* query_route(..., retries=3)
Retries == 3

\* How one requests.get can end: a route, an exception from requests.get
\* (timeout, connection), an HTTP error status (raise_for_status), or a
\* body with no "routes".
AttemptKinds == {"ok", "request_exception", "http_error", "no_routes"}

\* The attempts that raise inside the try block.
Raises(kind) == kind \in {"request_exception", "http_error"}

\* A variant handler, `except requests.RequestException`, through which an
\* HTTP error status handled elsewhere would escape.
CaughtRequestExceptionOnly(kind) == kind = "request_exception"

\* except Exception as e: every exception an attempt raises is handled.
Caught(kind) == TRUE

\* A variant loop, range(retries + 1).
MoreAttemptsInclusive(a) == a <= Retries

\* for attempt in range(retries): another pass of the loop remains after a
\* passes.
MoreAttempts(a) == a < Retries

\* What query_route returns once range(retries) is exhausted.
GiveUpValue == Unavailable

\* A variant without `if i == j: continue`.
NextColNoSkip(i, from, n) == Min(from, n)

\* The next column j >= from of row i that is not skipped by
\* `if i == j: continue`; n when the row is finished.
NextCol(i, from, n) == IF from = i THEN Min(from + 1, n) ELSE Min(from, n)

NewRow(n) == [j \in 1..n |-> 0]

\* A variant that sleeps REQUEST_DELAY only after a pair that got a route.
DelaysAfterRoutedPair(dist) == dist # Unavailable

\* time.sleep(REQUEST_DELAY) follows row[j] = dist whatever dist is.
DelaysAfterQuery(dist) == TRUE

\* open(file_path, "w") leaves a file of no bytes: what is written goes to
\* the buffer of the file object and reaches the file at a flush or a close.
EmptyFile == [header |-> <<>>, rows |-> <<>>]

\* The file once the buffer has been flushed: the header row, written first,
\* is in it.
Flushed(file) == [file EXCEPT !.header = [i \in 1..Len(stations) |-> stations[i].id]]

\* A variant that opens the file anew, mode "w", for every row.
ReplaceRows(rows, rec) == <<rec>>

\* writer.writerow on the open file puts the row after those written before.
AppendRow(rows, rec) == Append(rows, rec)

\* open(file_path, "w"), the header row (buffered; closed at once when there
\* is no station), and the first row's list.
StartBuild ==
    LET n == Len(stations)
    IN /\ pipeline = "build"
       /\ bpc = "idle"
       /\ matrixFile' = IF n = 0 THEN Flushed(EmptyFile) ELSE EmptyFile
       /\ bi' = 0
       /\ bj' = NextCol(0, 0, n)
       /\ row' = NewRow(n)
       /\ bpc' = IF n = 0 THEN "done"
                 ELSE IF NextCol(0, 0, n) = n THEN "rowend" ELSE "attempt"
       /\ attempt' = 0
       /\ events' = <<>>
       /\ requests' = 0
       /\ outstanding' = 0
       /\ delays' = 0
       /\ queries' = <<>>
       /\ UNCHANGED <<dirVars, pipeline, stations, runVars>>

\* requests.get(url, timeout=5) is called: the thread blocks in it.
SendRequest ==
    /\ bpc = "attempt"
    /\ MoreAttempts(attempt)
    /\ requests' = requests + 1
    /\ outstanding' = outstanding + 1
    /\ attempt' = attempt + 1
    /\ queries' = IF attempt = 0 THEN Append(queries, <<bi, bj>>) ELSE queries
    /\ bpc' = "waiting"
    /\ UNCHANGED <<dirVars, pipeline, stations, matrixFile, runVars, bi, bj, row, events, delays>>

\* The rest of one pass of query_route's loop body: requests.get returns or
\* raises, and what follows it.
Request(kind) ==
    /\ bpc = "waiting"
    /\ outstanding' = outstanding - 1
    /\ events' = Append(events, kind)
    /\ IF kind = "ok"
       THEN /\ row' = [row EXCEPT ![bj + 1] =
                         OsrmDistance(stations[bi + 1].pt, stations[bj + 1].pt)]
            /\ bpc' = "delay"
       ELSE /\ UNCHANGED row
            /\ bpc' = IF ~Raises(kind) THEN "attempt"
                      ELSE IF Caught(kind) THEN "sleep" ELSE "raised"
    /\ UNCHANGED queries
    /\ UNCHANGED <<dirVars, pipeline, stations, matrixFile, runVars, bi, bj, attempt, requests, delays>>

\* time.sleep(1) in the except block
RetrySleep ==
    /\ bpc = "sleep"
    /\ events' = Append(events, "sleep")
    /\ bpc' = "attempt"
    /\ UNCHANGED queries
    /\ UNCHANGED <<dirVars, pipeline, stations, matrixFile, runVars, bi, bj, attempt, row, requests,
                   outstanding, delays>>

\* the loop is exhausted: return None, and row[j] = dist
GiveUp ==
    /\ bpc = "attempt"
    /\ ~MoreAttempts(attempt)
    /\ row' = [row EXCEPT ![bj + 1] = GiveUpValue]
    /\ bpc' = "delay"
    /\ UNCHANGED queries
    /\ UNCHANGED <<dirVars, pipeline, stations, matrixFile, runVars, bi, bj, attempt, events, requests,
                   outstanding, delays>>

\* time.sleep(REQUEST_DELAY), then the next j
InterRequestDelay ==
    LET n == Len(stations)
    IN /\ bpc = "delay"
       /\ delays' = IF DelaysAfterQuery(row[bj + 1]) THEN delays + 1 ELSE delays
       /\ bj' = NextCol(bi, bj + 1, n)
       /\ bpc' = IF NextCol(bi, bj + 1, n) = n THEN "rowend" ELSE "attempt"
       /\ attempt' = 0
       /\ events' = <<>>
       /\ UNCHANGED queries
       /\ UNCHANGED <<dirVars, pipeline, stations, matrixFile, runVars, bi, row, requests, outstanding>>

\* writer.writerow([stations[i]["id"]] + row); f.flush(); then the next i
WriteRow ==
    LET n == Len(stations)
    IN /\ bpc = "rowend"
       /\ matrixFile' = [Flushed(matrixFile) EXCEPT !.rows =
                           AppendRow(@, [id |-> stations[bi + 1].id, vals |-> row])]
       /\ bi' = bi + 1
       /\ bj' = NextCol(bi + 1, 0, n)
       /\ row' = IF bi + 1 = n THEN row ELSE NewRow(n)
       /\ bpc' = IF bi + 1 = n THEN "done"
                 ELSE IF NextCol(bi + 1, 0, n) = n THEN "rowend" ELSE "attempt"
       /\ attempt' = 0
       /\ events' = <<>>
       /\ UNCHANGED queries
       /\ UNCHANGED <<dirVars, pipeline, stations, runVars, requests, outstanding, delays>>

\* The build is stopped from outside (Ctrl-C, a kill, a reboot) while it is
\* running: the process and its locals are gone, an unanswered request is
\* dropped, and the file keeps what was flushed.  An exception (Ctrl-C)
\* leaves the `with` block, which closes the file and so flushes the
\* buffer; a kill or a power loss does not.
Interrupt ==
    /\ bpc \in {"attempt", "waiting", "sleep", "delay", "rowend"}
    /\ bpc' = "idle"
    /\ \E closed \in BOOLEAN :
          matrixFile' = IF closed THEN Flushed(matrixFile) ELSE matrixFile
    /\ bi' = 0
    /\ bj' = 0
    /\ attempt' = 0
    /\ row' = <<>>
    /\ events' = <<>>
    /\ requests' = 0
    /\ outstanding' = 0
    /\ delays' = 0
    /\ queries' = <<>>
    /\ UNCHANGED <<dirVars, pipeline, stations, runVars>>

InitBuild ==
    /\ pipeline = "build"
    /\ \E k \in 0..MaxBuildStations, scheme \in IdSchemes :
          stations = load_stations(k, scheme)
    /\ matrixFile = EmptyFile
    /\ routeFile = [p \in RouteFiles |-> AbsentFile]
    /\ last = NoRun
    /\ IdleBuild
    /\ IdleDirections

NextBuild ==
    \/ StartBuild
    \/ SendRequest
    \/ \E kind \in AttemptKinds : Request(kind)
    \/ RetrySleep
    \/ GiveUp
    \/ InterRequestDelay
    \/ WriteRow
    \/ Interrupt

SpecBuild == InitBuild /\ [][NextBuild]_vars

\* A build that nothing stops from outside.  Every step of it is a step of
\* the one thread of main(): requests.get returns or raises within its
\* timeout, and each sleep ends.
NextBuildRun ==
    \/ StartBuild
    \/ SendRequest
    \/ \E kind \in AttemptKinds : Request(kind)
    \/ RetrySleep
    \/ GiveUp
    \/ InterRequestDelay
    \/ WriteRow

SpecBuildRun == InitBuild /\ [][NextBuildRun]_vars /\ WF_vars(NextBuildRun)

--------------------------------------------------------------------------
(* src/get_directions.py: detailed directions for the route that           *)
(* run_tsp_analysis exported to blue_bikes_route.csv.                      *)

MaxRouteStations == 2

\* retries: int = 3
GeoRetries == 3

\* How one attempt of get_route_geometry can end: code Ok with a route, an
\* answer without one, a requests exception (raise_for_status included), or
\* any other exception in the try block.
GeoKinds == {"ok", "no_route", "request_exception", "unexpected_error"}

\* load_route_from_csv: one dict per row of the exported file, the columns
\* through int() and float().
load_route_from_csv(rows) ==
    [k \in 1..Len(rows) |->
        [stop_number  |-> rows[k].stop_number,
         station_name |-> <<rows[k].pt, rows[k].returns>>,
         pt           |-> rows[k].pt,
         distance_to_next_km    |-> rows[k].distance_to_next_km,
         cumulative_distance_km |-> rows[k].cumulative_distance_km]]

\* next_station: the next row, route_data[0] after the last one.
NextStation(i, n) == IF i < n - 1 THEN i + 1 ELSE 0

\* A variant in which the last row has no segment back to the first.
SegmentsToWalkOpen(n) == IF n = 0 THEN 0 ELSE n - 1

\* for i in range(len(route_data))
SegmentsToWalk(n) == n

\* The segment appended when route_info is a route.
RoutedSegment(i) ==
    LET cur == route_data[i + 1]
        nxt == route_data[NextStation(i, Len(route_data)) + 1]
    IN [segment_id   |-> i + 1,
        from_station |-> cur.station_name,
        to_station   |-> nxt.station_name,
        distance_km  |-> OsrmDistance(cur.pt, nxt.pt) * 1000,
        geometry     |-> TRUE]

\* The segment appended when route_info is None: a straight line with the
\* row's own distance_to_next_km and no geometry.
FallbackSegment(i) ==
    LET cur == route_data[i + 1]
        nxt == route_data[NextStation(i, Len(route_data)) + 1]
    IN [segment_id   |-> i + 1,
        from_station |-> cur.station_name,
        to_station   |-> nxt.station_name,
        distance_km  |-> cur.distance_to_next_km,
        geometry     |-> FALSE]

\* get_all_route_segments(route_data) is called.
StartSegments ==
    /\ pipeline = "directions"
    /\ dpc = "idle"
    /\ segments' = <<>>
    /\ di' = 0
    /\ dattempt' = 0
    /\ dlog' = <<>>
    /\ dpc' = IF SegmentsToWalk(Len(route_data)) = 0 THEN "done" ELSE "attempt"
    /\ UNCHANGED <<route_data, pipeline, stations, matrixFile, runVars, buildVars>>

\* get_route_geometry: requests.get(url, params=params, timeout=10)
GeoRequest ==
    /\ dpc = "attempt"
    /\ dattempt < GeoRetries
    /\ dattempt' = dattempt + 1
    /\ dlog' = Append(dlog, "request")
    /\ dpc' = "waiting"
    /\ UNCHANGED <<route_data, di, segments, pipeline, stations, matrixFile, runVars, buildVars>>

\* The rest of the loop body: the answer or the exception, and for an
\* exception `if attempt < retries - 1: time.sleep(1)`.
GeoAnswer(kind) ==
    /\ dpc = "waiting"
    /\ dlog' = Append(dlog, kind)
    /\ IF kind = "ok"
       THEN /\ segments' = Append(segments, RoutedSegment(di))
            /\ dpc' = "delay"
       ELSE /\ UNCHANGED segments
            /\ dpc' = IF kind # "no_route" /\ dattempt < GeoRetries THEN "sleep"
                      ELSE "attempt"
    /\ UNCHANGED <<route_data, di, dattempt, pipeline, stations, matrixFile, runVars, buildVars>>

\* time.sleep(1) in an except block
GeoSleep ==
    /\ dpc = "sleep"
    /\ dlog' = Append(dlog, "sleep")
    /\ dpc' = "attempt"
    /\ UNCHANGED <<route_data, di, dattempt, segments, pipeline, stations, matrixFile,
                   runVars, buildVars>>

\* The loop is exhausted: return None, and the fallback segment.
GeoGiveUp ==
    /\ dpc = "attempt"
    /\ dattempt = GeoRetries
    /\ segments' = Append(segments, FallbackSegment(di))
    /\ dpc' = "delay"
    /\ UNCHANGED <<route_data, di, dattempt, dlog, pipeline, stations, matrixFile,
                   runVars, buildVars>>

\* time.sleep(REQUEST_DELAY), then the next i
SegmentDelay ==
    /\ dpc = "delay"
    /\ di' = di + 1
    /\ dattempt' = 0
    /\ dlog' = <<>>
    /\ dpc' = IF di + 1 = SegmentsToWalk(Len(route_data)) THEN "done" ELSE "attempt"
    /\ UNCHANGED <<route_data, segments, pipeline, stations, matrixFile, runVars, buildVars>>

\* The route file main() loads: what export_tsp_route wrote for a tour of
\* the stations, the registry order or its reverse from stop 0.
InitDirections ==
    /\ pipeline = "directions"
    /\ \E k \in 0..MaxRouteStations, scheme \in IdSchemes :
          /\ stations = load_stations(k, scheme)
          /\ \E tour \in {Identity(k), [p \in 1..k |-> IF p = 1 THEN 0 ELSE k + 1 - p]} :
                route_data = load_route_from_csv(export_tsp_route(stations, tour))
    /\ matrixFile = EmptyFile
    /\ routeFile = [p \in RouteFiles |-> AbsentFile]
    /\ last = NoRun
    /\ IdleBuild
    /\ dpc = "idle"
    /\ di = 0
    /\ dattempt = 0
    /\ dlog = <<>>
    /\ segments = <<>>

NextDirections ==
    \/ StartSegments
    \/ GeoRequest
    \/ \E kind \in GeoKinds : GeoAnswer(kind)
    \/ GeoSleep
    \/ GeoGiveUp
    \/ SegmentDelay

SpecDirections == InitDirections /\ [][NextDirections]_vars

--------------------------------------------------------------------------
(* Properties of the run scripts, checked under Spec *)

WarmStartScripts ==
    {"haversine", "shortest", "bluebikes_local_search", "scripts_local_search"}

MatrixScripts ==
    {"shortest", "bluebikes_local_search", "scripts_local_search", "matrix_analysis"}

\* What the latest run selected: the first last.n stations of the registry.
Selected == Prefix(stations, last.n)

RegistryIds == [i \in 1..Len(stations) |-> stations[i].id]

\* C1: every tour the optimizer step returns (solver result, N = 0 and
\* N = 1 shortcuts, identity fallback) lists each index 0..N-1 exactly
\* once, N being the number of selected stations.
C1_TourIsPermutation ==
    last.returned => IsPermutation(last.tour, last.n)

\* C2: a warm-start run passes a seed if and only if the persisted route
\* file exists and holds as many stops as stations are selected; with no
\* file, an empty file or another stop count it passes None.
C2_SeedOnlyOnMatch ==
    last.readRoute =>
        (last.x0.some <=> (/\ last.readExists
                           /\ last.readStops # 0
                           /\ last.readStops = last.n))

\* A run found a persisted route of the selected size and seeded the
\* solver with it.
C2_Witness ==
    /\ last.readRoute
    /\ last.readExists
    /\ last.readStops = last.n
    /\ last.n >= 3
    /\ last.x0.some

\* C3: a warm-start run that finds a persisted route with another stop
\* count than the current selection does not raise and does not truncate:
\* it passes no seed, and it persists a route of exactly N stops covering
\* every selected station.
C3_MismatchDiscardedSafely ==
    (/\ last.script = "haversine"
     /\ last.readRoute
     /\ last.readExists
     /\ last.readStops # last.n)
    => (/\ ~last.x0.some
        /\ last.stage = "done"
        /\ IsPermutation(last.tour, last.n)
        /\ Len(routeFile[WriteFileOf(last.script)].stops) = last.n)

\* The later of two consecutive completed runs of one script over the same
\* selection, seeded with what the earlier one persisted.
SeededFromPrevious ==
    /\ last.stage = "done"
    /\ last'.stage = "done"
    /\ last'.script = last.script
    /\ last.script \in WarmStartScripts
    /\ ReadFileOf(last.script) = WriteFileOf(last.script)
    /\ last'.n = last.n
    /\ last.dim = last.n
    /\ last'.dim = last'.n
    /\ last'.x0 = SomeSeed(last.tour)

\* C4: over consecutive runs on an unchanged station set with the same
\* strategy, each seeded with the previous run's persisted route, the
\* reported cost never rises: cost of run k+1 <= cost of run k.
C4_WarmStartNonRegression ==
    [][SeededFromPrevious => last'.cost <= last.cost]_vars

\* The route a completed run persisted, as the file on disk.
PersistedBy(script) ==
    routeFile[ReadFileOf(script)]
        = write_route_to_csv(format_python_tsp_route(Selected, last.tour))

C6_SeedMapsIdsToIndices ==
    [][(last'.readRoute /\ last'.x0.some)
         => /\ IsPermutation(last'.x0.val, last'.n)
            /\ \A k \in 1..Len(last'.x0.val) :
                  IntOf(stations[last'.x0.val[k] + 1].id)
                    = load_route(routeFile[ReadFileOf(last'.script)])[k].station_id]_vars

\* C7: a run gets a matrix from load_distance_matrix only if the file's
\* header ids and row ids are the registry's ids, in order; otherwise the
\* load fails.
C7_LoadChecksIds ==
    (last.script \in MatrixScripts /\ last.stage \notin {"none", "load_raised"})
        => /\ matrixFile.header = RegistryIds
           /\ Len(matrixFile.rows) = Len(stations)
           /\ \A i \in 1..Len(matrixFile.rows) : matrixFile.rows[i].id = stations[i].id

\* C8: the matrix a warm-start run hands to the solver has dimension N; a
\* run whose matrix has another dimension stops with an error before the
\* solver is called.
C8_MatrixDimensionIsN ==
    last.readRoute => last.dim = last.n

--------------------------------------------------------------------------
(* Properties of the matrix builder, checked under SpecBuild *)

Failures == AttemptKinds \ {"ok"}

AttemptsIn(ev) == Cardinality({k \in 1..Len(ev) : ev[k] # "sleep"})

\* C9: for one pair query_route issues at most Retries requests, issues
\* none after a success, and pauses between any failed attempt (exception,
\* HTTP error, or no routes in the answer) and the next attempt.
C9_RetryDiscipline ==
    /\ AttemptsIn(events) <= Retries
    /\ \A k \in 1..Len(events) :
          /\ events[k] = "ok" => k = Len(events)
          /\ (events[k] \in Failures /\ k < Len(events)) => events[k + 1] = "sleep"

\* The pair being queried got no route from any of its attempts.
Exhausted == bpc = "delay" /\ \A k \in 1..Len(events) : events[k] # "ok"

\* C10: when every attempt for a pair fails the build does not abort: the
\* pair's cell is recorded as unavailable, the build has a next step, and
\* when it is done the file holds N rows of N cells.
C10_BuildSurvivesFailedPair ==
    /\ bpc # "raised"
    /\ Exhausted => (AttemptsIn(events) = Retries /\ row[bj + 1] = Unavailable)
    /\ bpc # "done" => ENABLED NextBuild
    /\ bpc = "done" =>
          /\ Len(matrixFile.rows) = Len(stations)
          /\ \A i \in 1..Len(stations) :
                /\ Len(matrixFile.rows[i].vals) = Len(stations)
                /\ matrixFile.rows[i].id = stations[i].id

\* A build of two stations finished although pair (0, 1) never got a route.
C10_Witness ==
    /\ bpc = "done"
    /\ Len(stations) = 2
    /\ Len(matrixFile.rows) = 2
    /\ matrixFile.rows[1].vals[2] = Unavailable

\* Pairs of row-major order queried before pair (i, j) of an n-station build.
PairsBefore(i, j, n) == i * (n - 1) + (IF j > i THEN j - 1 ELSE j)

\* C11: the builder never has more than one routing request outstanding,
\* and it issues the requests of a pair only after an inter-request delay
\* has followed the query of every earlier pair.
C11_SequentialWithDelay ==
    /\ outstanding \in {0, 1}
    /\ outstanding = 1 <=> bpc = "waiting"
    /\ bpc \in {"attempt", "waiting", "sleep", "delay"}
          => delays = PairsBefore(bi, bj, Len(stations))

\* A request of the second pair is outstanding, after the delay that
\* followed the first pair, which got no route.
C11_Witness ==
    /\ bpc = "waiting"
    /\ outstanding = 1
    /\ delays = 1
    /\ bi = 1
    /\ matrixFile.rows # <<>>
    /\ matrixFile.rows[1].vals[2] = Unavailable

\* C12: each row is in the file as soon as it is complete, and a build
\* started again after an interruption keeps the rows already persisted
\* and continues from the first row that is missing.
C12_RestartResumes ==
    [][(bpc = "idle" /\ bpc' # "idle")
         => /\ matrixFile'.rows = matrixFile.rows
            /\ bi' = Len(matrixFile.rows)]_vars

\* n rows of n entries, zero on the diagonal, no negative entry.
WellFormed(m, n) ==
    /\ Len(m) = n
    /\ \A i \in 1..n :
          /\ Len(m[i]) = n
          /\ m[i][i] = 0
          /\ \A j \in 1..n : m[i][j] >= 0

\* The matrix the provider handed to the latest run: the file's for the
\* scripts that load it, the geometric one of the selected stations for
\* the others.
ProvidedMatrix ==
    IF last.script \in MatrixScripts
    THEN load_distance_matrix(matrixFile)
    ELSE get_haversine_distance_matrix(Selected)

\* C13: every matrix the provider returns to a run, geometric or loaded,
\* is N x N for the current station list, has a zero diagonal and only
\* non-negative finite entries.
C13_ProvidedMatrixWellFormed ==
    last.stage \notin {"none", "load_raised"}
       => WellFormed(ProvidedMatrix,
                     IF last.script \in MatrixScripts THEN Len(stations) ELSE last.n)

\* C14: the geometric builder computes each unordered pair once, at i < j,
\* and both cells of the pair hold that distance: the matrix is symmetric
\* with a zero diagonal, the copy into [i][j] for i > j finding [j][i]
\* already filled.
C14_GeometricSymmetric ==
    (last.script \in {"haversine", "analysis"} /\ last.stage # "none")
       => LET m == get_haversine_distance_matrix(Selected)
          IN /\ Len(m) = last.n
             /\ last.solved => last.matrix = m
             /\ \A i, j \in 1..last.n :
                   /\ Len(m[i]) = last.n
                   /\ m[i][j] = m[j][i]
                   /\ i = j => m[i][j] = 0
                   /\ i < j => m[i][j] = haversine_distance(Selected[i].pt, Selected[j].pt)

\* A geometric run over three stations or more, whose matrix reached the
\* solver.
C14_Witness ==
    /\ last.script = "haversine"
    /\ last.n >= 3
    /\ last.solved
    /\ last.matrix[3][1] = haversine_distance(Selected[1].pt, Selected[3].pt)
    /\ last.matrix[3][1] > 0

\* The legs the rows of a route show, in order.
ShownLegs(route) == [q \in 1..Len(route) |-> route[q].distance_to_next_km]

Abs(v) == IF v < 0 THEN 0 - v ELSE v

\* C15: in every route a formatter produced, the cumulative distance is 0
\* at the first stop, never decreases from a stop to the next, and at stop
\* k is the accumulated leg distances of the stops before it: the rounded
\* sum of the legs as computed, hence within rounding (half a metre per
\* figure) of the sum of the legs as shown.
C15_CumulativeAccumulatesLegs ==
    (last.stage \in {"done", "write_raised"})
       => /\ last.route # <<>> => last.route[1].cumulative_distance_km = 0
          /\ \A k \in 1..(Len(last.route) - 1) :
                last.route[k].cumulative_distance_km
                   <= last.route[k + 1].cumulative_distance_km
          /\ \A k \in 1..Len(last.route) :
                /\ Abs(last.route[k].cumulative_distance_km
                         - SumTo(ShownLegs(last.route), k - 1)) <= 500 * k
                /\ last.script \in WarmStartScripts
                      => last.route[k].cumulative_distance_km
                            = Round3(SumTo([q \in 1..Len(last.tour) |->
                                              IF q < Len(last.tour)
                                              THEN haversine_distance(
                                                      Selected[last.tour[q] + 1].pt,
                                                      Selected[last.tour[q + 1] + 1].pt)
                                              ELSE 0], k - 1))
                /\ last.script = "osrm"
                      => last.route[k].cumulative_distance_km
                            = SumTo(ShownLegs(last.route), k - 1)

\* A formatted route of three stops or more whose cumulative distance
\* grows at each of the first two legs.
C15_Witness ==
    /\ last.script = "haversine"
    /\ last.stage = "done"
    /\ Len(last.route) >= 3
    /\ 0 < last.route[2].cumulative_distance_km
    /\ last.route[2].cumulative_distance_km < last.route[3].cumulative_distance_km

\* What the other formatter of the repository makes of the same stations
\* and tour: export_tsp_route for a route format_python_tsp_route made,
\* and the reverse.
OtherFormatter ==
    IF last.script = "haversine"
    THEN export_tsp_route(Selected, last.tour)
    ELSE format_python_tsp_route(Selected, last.tour)

\* C16: the formatters apply one closing-leg convention: for the same
\* stations and tour they emit the same number of stops, and the last
\* stop's distance to next is the closing leg in all of them or zero in
\* all of them.
C16_OneClosingLegConvention ==
    (/\ last.script \in {"haversine", "analysis"}
     /\ last.stage = "done"
     /\ Len(last.tour) >= 2)
       => /\ Len(last.route) = Len(OtherFormatter)
          /\ last.route[Len(last.tour)].distance_to_next_km
                = OtherFormatter[Len(last.tour)].distance_to_next_km

\* C17: in the haversine pipeline the distances to next of the formatted
\* route add up to the cost the optimizer reported, closing edge
\* included (up to the rounding of the shown figures).
C17_RouteSumIsCost ==
    (last.script = "haversine" /\ last.stage = "done")
       => Abs(SumTo(ShownLegs(last.route), Len(last.route)) - last.cost)
             <= 500 * Len(last.route)

\* C18: every (tour, cost) the optimizer step returns, the fallback's
\* included, has cost = the consecutive edges of the tour plus the closing
\* edge, on the matrix the step was given.
C18_CostIsClosedTourLength ==
    (/\ last.script \in {"analysis", "matrix_analysis"}
     /\ last.returned
     /\ last.solved
     /\ WellFormed(last.matrix, last.n))
       => last.cost = compute_permutation_distance(last.matrix, last.tour)

\* C19: a run over no station yields the empty tour with cost 0, a run
\* over one station the tour [0] with cost 0, in the analysis functions
\* and the warm-start scripts alike, and it completes through formatting
\* and persisting without raising.  (Stated for the entry points that
\* build their own matrix, so that no stale file is involved.)
C19_SmallRunsComplete ==
    (/\ last.script \in {"haversine", "analysis"}
     /\ last.n <= 1)
       => /\ last.stage = "done"
          /\ last.tour = Identity(last.n)
          /\ last.cost = 0

\* C20: the solver is started only on a matrix that was validated: square
\* and without a negative (unavailable) entry.
C20_SolverOnlyOnValidMatrix ==
    last.solved
       => \A i \in 1..Len(last.matrix) :
             /\ Len(last.matrix[i]) = Len(last.matrix)
             /\ \A j \in 1..Len(last.matrix[i]) : last.matrix[i][j] >= 0

\* Every off-diagonal entry of the rows in the file is a distance the
\* service returned or the unavailable mark.
EntriesSettled ==
    \A i \in 1..Len(matrixFile.rows) :
       \A j \in 1..Len(stations) :
          i # j => matrixFile.rows[i].vals[j]
                      \in {OsrmDistance(stations[i].pt, stations[j].pt), Unavailable}

\* C23: whatever each attempt does, the build terminates; it issues at
\* most N * (N - 1) * retries requests and ends with N rows in which every
\* off-diagonal entry holds a returned value or is marked unavailable.
C23_BuildTerminates ==
    /\ [](requests <= Len(stations) * (Len(stations) - 1) * Retries)
    /\ [](bpc = "done" => Len(matrixFile.rows) = Len(stations) /\ EntriesSettled)
    /\ <>(bpc = "done")

\* A finished build of two stations that used its whole request budget:
\* every attempt of both pairs failed.
C23_Witness ==
    /\ bpc = "done"
    /\ Len(stations) = 2
    /\ requests = 2 * Retries
    /\ matrixFile.rows[1].vals[2] = Unavailable
    /\ matrixFile.rows[2].vals[1] = Unavailable

\* The k-th ordered pair (i, j), i # j, of n stations in row-major order.
\* (There is none for fewer than two stations.)
PairAt(k, n) ==
    IF n < 2 THEN <<n, n>>
    ELSE LET i  == (k - 1) \div (n - 1)
             jj == (k - 1) % (n - 1)
         IN <<i, IF jj >= i THEN jj + 1 ELSE jj>>

\* C25: the builder calls query_route for every ordered pair (i, j) with
\* i # j exactly once, in row-major order, never for a pair with i = j, and
\* the diagonal of every row it writes is 0.
C25_EachPairOnceRowMajor ==
    LET n == Len(stations)
    IN /\ Len(queries) <= n * (n - 1)
       /\ \A k \in 1..Len(queries) : queries[k] = PairAt(k, n)
       /\ bpc = "done" => Len(queries) = n * (n - 1)
       /\ \A i \in 1..Len(matrixFile.rows) : matrixFile.rows[i].vals[i] = 0

\* A finished build of two stations: (0, 1) then (1, 0) were queried.
C25_Witness ==
    /\ bpc = "done"
    /\ queries = << <<0, 1>>, <<1, 0>> >>
    /\ Len(matrixFile.rows) = 2

\* The file is the header row followed by complete rows for stations
\* 0..k-1 in registry order, each the station id and N values.
HeaderAndCompleteRows ==
    /\ matrixFile.header = [i \in 1..Len(stations) |-> stations[i].id]
    /\ Len(matrixFile.rows) <= Len(stations)
    /\ \A i \in 1..Len(matrixFile.rows) :
          /\ matrixFile.rows[i].id = stations[i].id
          /\ Len(matrixFile.rows[i].vals) = Len(stations)

\* A step of a running build leaves the rows as they are or puts one row
\* after them, and that only once every query of the row has finished.
RowsOnlyAppended ==
    (bpc # "idle" /\ matrixFile'.rows # matrixFile.rows)
       => /\ Len(matrixFile'.rows) = Len(matrixFile.rows) + 1
          /\ SubSeq(matrixFile'.rows, 1, Len(matrixFile.rows)) = matrixFile.rows
          /\ outstanding = 0
          /\ Len(queries) = Len(matrixFile'.rows) * (Len(stations) - 1)

\* C27: at every point during a build the persisted file is the header row
\* followed by complete rows for stations 0..k-1, k <= N, each with the
\* station id and exactly N values; a row once written is never rewritten,
\* and a row is written only after all its N-1 queries have finished.
C27_FileIsHeaderAndCompleteRows ==
    /\ [](bpc # "idle" => HeaderAndCompleteRows)
    /\ [][RowsOnlyAppended]_vars

\* C27 as the file on disk has it: until the first flush, which follows
\* the first row, a running build's file is empty; from then on it is the
\* header row followed by complete rows for stations 0..k-1; rows are only
\* appended, each after all the queries of its row have finished.
C27_FileIsHeaderAndCompleteRowsOnceFlushed ==
    /\ []((bpc # "idle" /\ (matrixFile.rows # <<>> \/ bpc = "done"))
            => HeaderAndCompleteRows)
    /\ []((bpc \notin {"idle", "done"} /\ matrixFile.rows = <<>>)
            => matrixFile = EmptyFile)
    /\ [][RowsOnlyAppended]_vars

\* A build of two stations between its two rows: the first row and the
\* header are in the file, the second row's query is under way.
C27_Witness ==
    /\ bpc = "waiting"
    /\ Len(stations) = 2
    /\ bi = 1
    /\ Len(matrixFile.rows) = 1
    /\ matrixFile.header = <<stations[1].id, stations[2].id>>
    /\ Len(matrixFile.rows[1].vals) = 2

\* C21: the annotated route depends only on the stations and the tour,
\* whichever matrix the optimizer minimized: every displayed leg is the
\* haversine distance between the two consecutive stops.
C21_DisplayedLegsAreHaversine ==
    (/\ last.script \in WarmStartScripts \cup {"analysis", "matrix_analysis"}
     /\ last.stage = "done")
       => \A k \in 1..(Len(last.tour) - 1) :
             last.route[k].distance_to_next_km
                = Round3(haversine_distance(Selected[last.tour[k] + 1].pt,
                                            Selected[last.tour[k + 1] + 1].pt))

\* Where in the latest run's log operation op on file happens.
IoAt(op, file) ==
    {k \in 1..Len(last.io) : last.io[k].op = op /\ last.io[k].file = file}

Solving == {k \in 1..Len(last.io) : last.io[k].op = "solve"}

\* C22: within one run the persisted route file is read exactly once, at
\* the start, before optimization, and written exactly once, at the end,
\* after optimization and formatting; no read of it follows the write.
\* (Stated for the scripts that persist to the file they read, in a run
\* that found the file.)
C22_ReadOnceThenWriteOnce ==
    (/\ last.script \in {"haversine", "shortest", "scripts_local_search"}
     /\ last.readExists
     /\ last.stage = "done")
       => LET file == WriteFileOf(last.script)
          IN /\ Cardinality(IoAt("read", file)) = 1
             /\ Cardinality(IoAt("write", file)) = 1
             /\ \A r \in IoAt("read", file), o \in Solving, w \in IoAt("write", file) :
                   r < o /\ o < w

\* The selection is the four-station square A, B, C, D in registry order.
SquareInstance == [k \in 1..Len(Selected) |-> Selected[k].pt] = <<1, 2, 3, 4>>

\* The cheapest closed tour of matrix m, by enumeration.
MinClosedTour(m) ==
    LET tours == {<<0>> \o p : p \in PermSeqs(1..(Dim(m) - 1))}
    IN CHOOSE c \in {compute_permutation_distance(m, t) : t \in tours} :
          \A t \in tours : c <= compute_permutation_distance(m, t)

\* The perimeter walk A-B-C-D-A.
Perimeter ==
    haversine_distance(1, 2) + haversine_distance(2, 3)
       + haversine_distance(3, 4) + haversine_distance(4, 1)

FirstStations(st, limit) ==
    IF limit.some /\ limit.val <= Len(st) THEN Prefix(st, limit.val) ELSE st

\* C26: the stations of a run are the first max_stations of the registry,
\* all of them when there is no limit or the limit exceeds their number,
\* and every entry point selects the same stations for the same limit, a
\* limit of 0 included; the matrix the optimizer gets is the leading block
\* of the full matrix for them.
C26_SameLeadingSubset ==
    last.stage # "none"
       => /\ last.n \in {Len(FirstStations(stations, limit)) : limit \in Limits}
          /\ \A limit \in Limits :
                /\ SelectStations(stations, limit) = FirstStations(stations, limit)
                /\ AnalysisSelection(stations, limit) = FirstStations(stations, limit)
                /\ SelectStations(stations, limit) = AnalysisSelection(stations, limit)
          /\ (last.script = "shortest" /\ last.solved /\ ~LoadRaises(matrixFile)
               /\ Dim(load_distance_matrix(matrixFile)) = Len(stations))
                => last.matrix = SliceMatrix(load_distance_matrix(matrixFile), last.n)

\* The attempts of the current get_route_geometry call that ended, each
\* with how many requests had been made by then.
RequestsUpTo(k) == Cardinality({q \in 1..k : dlog[q] = "request"})

\* C29: get_route_geometry makes at most `retries` requests, returns at
\* the first attempt whose answer is Ok with a route, returns None after
\* the last failed attempt, and pauses after a failed attempt exactly when
\* another attempt remains, never after the final one.
C29_GeometryRetryDiscipline ==
    /\ RequestsUpTo(Len(dlog)) <= GeoRetries
    /\ \A k \in 1..Len(dlog) :
          /\ dlog[k] = "ok" => (k = Len(dlog) /\ dpc = "delay")
          /\ (dlog[k] \in GeoKinds \ {"ok"} /\ RequestsUpTo(k) < GeoRetries /\ k < Len(dlog))
                => dlog[k + 1] = "sleep"
          /\ (dlog[k] \in GeoKinds \ {"ok"} /\ RequestsUpTo(k) = GeoRetries)
                => k = Len(dlog)
          /\ dlog[k] = "sleep" => (k > 1 /\ dlog[k - 1] \in GeoKinds \ {"ok"})

\* The segments appended so far are the first ones of the walk, in order.
SegmentShape(k) ==
    LET n   == Len(route_data)
        seg == segments[k]
    IN /\ seg.segment_id = k
       /\ seg.from_station = route_data[k].station_name
       /\ seg.to_station = route_data[(k % n) + 1].station_name
       /\ ~seg.geometry => seg.distance_km = route_data[k].distance_to_next_km

\* C28: for a route of n rows get_all_route_segments returns exactly n
\* segments whatever the requests do; segment i (segment_id i+1) goes from
\* row i to row (i+1) mod n; a segment whose routing failed is kept without
\* geometry and with the row's distance_to_next, and the walk goes on.
C28_OneSegmentPerStop ==
    /\ Len(segments) = (IF dpc = "delay" THEN di + 1 ELSE di)
    /\ \A k \in 1..Len(segments) : SegmentShape(k)
    /\ dpc = "done" => Len(segments) = Len(route_data)

C28_Witness ==
    /\ pipeline = "directions"
    /\ dpc = "done"
    /\ Len(segments) = 3
    /\ ~segments[1].geometry
    /\ segments[2].geometry
    /\ segments[3].to_station = route_data[1].station_name

\* The scripts whose next run reads the file this run wrote.
ReadsBack(script) ==
    /\ script \in WarmStartScripts
    /\ ReadFileOf(script) = WriteFileOf(script)

\* parse_stations numbers the sorted stations from 0: the id is the index.
IdsAreIndices == \A i \in 1..Len(stations) : IntOf(stations[i].id) = i - 1

\* The file a completed run left, read back: the rows it formatted, in
\* order, the id column as the number its text spells.
ReadBackIsWritten ==
    LET back == load_route(routeFile[WriteFileOf(last.script)])
    IN /\ Len(back) = Len(last.route)
       /\ \A k \in 1..Len(back) :
             /\ back[k].stop_number = last.route[k].stop_number
             /\ back[k].station_id = IntOf(Selected[last.tour[k] + 1].id)
             /\ back[k].pt = Selected[last.tour[k] + 1].pt
             /\ back[k].distance_to_next_km = last.route[k].distance_to_next_km
             /\ back[k].cumulative_distance_km = last.route[k].cumulative_distance_km

\* C30: a route written by write_route_to_csv and read back by load_route
\* has the same stops in the same order with the same station ids; hence
\* with ids equal to registry indices and the same stations selected, the
\* seed of run k+1 is exactly the tour run k produced.
C30_SeedIsPreviousTour ==
    /\ []((last.stage = "done" /\ last.script \in WarmStartScripts) => ReadBackIsWritten)
    /\ [][(/\ last.stage = "done"
            /\ ReadsBack(last.script)
            /\ IdsAreIndices
            /\ last'.script = last.script
            /\ last'.readRoute
            /\ last'.n = last.n)
           => last'.x0 = SomeSeed(last.tour)]_vars

====
